---- MODULE Spec2Model ----
(***************************************************************************)
(* Model of the SideNav screen controller of src/ar-app/App.js: a React    *)
(* function component that drives a sliding drawer from taps and voice     *)
(* commands, a speech-recognition session and a permission-gated camera.   *)
(*                                                                         *)
(* React state is modelled as committed values (what the last render saw)  *)
(* plus an update queue: a setter call queues a value, Render commits the  *)
(* queue and schedules the effects whose dependencies changed.  Handlers   *)
(* are closures of the last committed render, so they read committed       *)
(* values; an async function keeps the values of the render it started in. *)
(***************************************************************************)
EXTENDS Integers, Sequences, FiniteSets, TLC

\* ------------------------------------------------------------------ bounds
\* Total number of startListening calls in one run.
MaxCalls == 1
\* Number of stopListening calls that may be in flight at once.
MaxStops == 1
\* Total number of toggleCameraType calls in one run.
MaxFlips == 2

\* ------------------------------------------------------- program constants
\* Dimensions.get('window').width; any positive width behaves alike.
SCREEN_WIDTH == 360

\* ------------------------------------------------------------------ strings
\* A string is a sequence of one-character strings.
UpperChars ==
  << "A","B","C","D","E","F","G","H","I","J","K","L","M",
     "N","O","P","Q","R","S","T","U","V","W","X","Y","Z" >>
LowerChars ==
  << "a","b","c","d","e","f","g","h","i","j","k","l","m",
     "n","o","p","q","r","s","t","u","v","w","x","y","z" >>

\* String.prototype.toLowerCase on one character, then on a string.
toLowerCaseChar(c) ==
  IF \E i \in 1..Len(UpperChars) : UpperChars[i] = c
  THEN LowerChars[CHOOSE i \in 1..Len(UpperChars) : UpperChars[i] = c]
  ELSE c
toLowerCase(s) == [i \in 1..Len(s) |-> toLowerCaseChar(s[i])]

\* String.prototype.includes: sub occurs in s as a contiguous run.
includes(s, sub) ==
  \E i \in 0..(Len(s) - Len(sub)) : SubSeq(s, i + 1, i + Len(sub)) = sub

OPEN_MENU  == << "o","p","e","n"," ","m","e","n","u" >>
CLOSE_MENU == << "c","l","o","s","e"," ","m","e","n","u" >>

\* The transcripts the speech engine may deliver (event.value[0]).
T_OPEN    == << "O","P","E","N"," ","M","E","N","U"," ","p","l","s" >>
T_close   == << "p","l","s"," ","C","l","o","s","e"," ","m","e","n","u" >>
T_both    == << "c","l","o","s","e"," ","m","e","n","u"," ",
                "O","p","e","n"," ","M","e","n","u" >>
T_near    == << "o","p","e","n","m","e","n","u"," ","c","l","o","s","e" >>
Transcripts == { T_OPEN, T_close, T_both, T_near }

\* Which branch of the voice-command effect a text takes
\* (if includes 'open menu' ... else if includes 'close menu' ...).
commandBranch_closeFirst(text) ==
  IF includes(toLowerCase(text), CLOSE_MENU) THEN "close"
  ELSE IF includes(toLowerCase(text), OPEN_MENU) THEN "open"
  ELSE "none"
commandBranch(text) ==
  IF includes(toLowerCase(text), OPEN_MENU) THEN "open"
  ELSE IF includes(toLowerCase(text), CLOSE_MENU) THEN "close"
  ELSE "none"

\* -------------------------------------------------------------------- state
VARIABLES
  platform,             \* Platform.OS
  mounted,              \* the component is mounted
  view,                 \* what the last render returned
  isOpen, isListening, spokenText, isVoiceAvailable,
  hasCameraPermission, cameraType,        \* committed useState values
  queue,                \* queued setter calls, per state variable
  animation,            \* the Animated.Value: toValue of the last timing started
  effectPending,        \* the voice-command effect is scheduled
  initPc,               \* position of the mount effect's init()
  subscribed,           \* Voice.onSpeechResults holds onSpeechResults
  calls,                \* startListening calls
  nCalls,               \* number of startListening calls made
  stops,                \* stopListening calls awaiting Voice.stop
  engine,               \* the speech engine
  voiceStartCount,      \* Voice.start invocations
  destroy,              \* the Voice.destroy() promise of the cleanup
  destroyCount,         \* Voice.destroy invocations
  initLog,              \* history: the order of the mount sequence
  lastReq,              \* history: last voice request, no tap since or pending
  tapAfterVoiceOpen,    \* history: "opened" by a voice request, then "tapped"
  flipCount,            \* history: toggleCameraType calls made
  actedOn               \* history: the effect called toggleMenu for spokenText

stateVars == << isOpen, isListening, spokenText, isVoiceAvailable,
                hasCameraPermission, cameraType >>
histVars  == << initLog, lastReq, tapAfterVoiceOpen,
                flipCount, actedOn >>
vars == << platform, mounted, view, stateVars, queue, animation,
           effectPending, initPc, subscribed, calls, nCalls, stops, engine,
           voiceStartCount, destroy, destroyCount, histVars >>

\* An empty update queue: no setter called since the last render.
NoUpdates ==
  [ isOpen |-> << >>, isListening |-> << >>, spokenText |-> << >>,
    isVoiceAvailable |-> << >>, hasCameraPermission |-> << >>,
    cameraType |-> << >> ]

\* The value a state variable takes at the next render.
Apply(cur, q) == IF q = << >> THEN cur ELSE q[1]

\* A setter call: queues v for field f; the last call of a batch wins.
\* React keeps the queue of an unmounted component but never renders it.
SetState(q, f, v) == [q EXCEPT ![f] = << v >>]

\* A startListening call: where it is, the isVoiceAvailable its closure
\* holds, what its permission request returned, whether it reached
\* Voice.start and how that settled, the Alert.alert it raised and how
\* many it raised.
NoCall == [ pc |-> "unused", isVoiceAvailable |-> FALSE, perm |-> "none",
            started |-> FALSE, startResult |-> "none", alert |-> "none",
            alerts |-> 0 ]

\* The startListening calls kept track of: the MaxCalls calls of Spec and
\* the one further call of SpecOverlap.
CallSlots == 1..(MaxCalls + 1)

\* No re-render and no effect is outstanding.
Quiescent == queue = NoUpdates /\ ~effectPending /\ initPc # "idle"

Init ==
  /\ platform \in { "android", "ios" }
  /\ mounted = TRUE
  /\ view = "empty"
  /\ isOpen = FALSE
  /\ isListening = FALSE
  /\ spokenText = << >>
  /\ isVoiceAvailable = FALSE
  /\ hasCameraPermission = "null"
  /\ cameraType = "back"
  /\ queue = NoUpdates
  /\ animation = -SCREEN_WIDTH
  /\ effectPending = TRUE
  /\ initPc = "idle"
  /\ subscribed = FALSE
  /\ calls = [ k \in CallSlots |-> NoCall ]
  /\ nCalls = 0
  /\ stops = 0
  /\ engine = "idle"
  /\ voiceStartCount = 0
  /\ destroy = "none"
  /\ destroyCount = 0
  /\ initLog = << >>
  /\ lastReq = "none"
  /\ tapAfterVoiceOpen = "no"
  /\ flipCount = 0
  /\ actedOn = FALSE

\* ------------------------------------------------- the stated interpreter
\* The intent the specification assigns to a text, stated without
\* toLowerCase and includes: a phrase matches at offset i when every
\* character agrees up to letter case.
SameLetter(a, b) ==
  \/ a = b
  \/ \E i \in 1..Len(UpperChars) :
       {a, b} = {UpperChars[i], LowerChars[i]}
MatchesAt(text, phrase, i) ==
  /\ i + Len(phrase) - 1 <= Len(text)
  /\ \A j \in 1..Len(phrase) : SameLetter(text[i + j - 1], phrase[j])
Mentions(text, phrase) == \E i \in 1..Len(text) : MatchesAt(text, phrase, i)
Interpret(text) ==
  IF Mentions(text, OPEN_MENU) THEN "open"
  ELSE IF Mentions(text, CLOSE_MENU) THEN "close"
  ELSE "none"

\* Both classifications tabulated over the texts spokenText can hold, so
\* that a step looks the answer up instead of rescanning the text.
Texts == Transcripts \cup { << >> }
InterpretOf == [ t \in Texts |-> Interpret(t) ]
commandBranchOf == [ t \in Texts |-> commandBranch(t) ]

\* ---------------------------------------------------------------- drawer
\* toggleMenu: starts the 200 ms timing towards the offset opposite to the
\* isOpen of its closure (stopping a running one) and queues !isOpen.
toggleMenu_alwaysOpen ==
  /\ animation' = 0
  /\ queue' = SetState(queue, "isOpen", TRUE)
toggleMenu_sameOffset ==
  /\ animation' = IF isOpen THEN 0 ELSE -SCREEN_WIDTH
  /\ queue' = SetState(queue, "isOpen", ~isOpen)
toggleMenu ==
  /\ animation' = IF isOpen THEN -SCREEN_WIDTH ELSE 0
  /\ queue' = SetState(queue, "isOpen", ~isOpen)

\* A tap on the menu button or on the drawer's close button.
TapMenu ==
  /\ mounted /\ view = "full"
  /\ toggleMenu
  /\ lastReq' = "none"
  /\ tapAfterVoiceOpen' =
       IF Quiescent /\ isOpen /\ tapAfterVoiceOpen = "opened"
       THEN "tapped" ELSE "no"
  /\ UNCHANGED << platform, mounted, view, stateVars, effectPending, initPc,
                  subscribed, calls, nCalls, stops, engine, voiceStartCount,
                  destroy, destroyCount, initLog, flipCount, actedOn >>

\* Whether the effect body calls toggleMenu: on the open branch when
\* !isOpen, on the close branch when isOpen.
effectToggles_noStateCheck(branch, open) == branch # "none"
effectToggles(branch, open) ==
  \/ branch = "open" /\ ~open
  \/ branch = "close" /\ open

\* The effect on [spokenText, isOpen, toggleMenu]: an open command toggles
\* a closed drawer, a close command an open one.
VoiceCommandEffect ==
  /\ mounted /\ effectPending /\ initPc # "idle"
  /\ effectPending' = FALSE
  /\ IF effectToggles(commandBranchOf[spokenText], isOpen)
     THEN toggleMenu
     ELSE UNCHANGED << animation, queue >>
  /\ actedOn' = (actedOn \/ effectToggles(commandBranchOf[spokenText], isOpen))
  /\ lastReq' = IF queue.isOpen # << >> THEN "none"
                ELSE IF InterpretOf[spokenText] = "none" THEN lastReq
                ELSE InterpretOf[spokenText]
  /\ tapAfterVoiceOpen' =
       IF tapAfterVoiceOpen = "tapped" THEN "tapped"
       ELSE IF InterpretOf[spokenText] = "open" /\ ~isOpen
               /\ queue.isOpen = << >> THEN "opened"
       ELSE IF InterpretOf[spokenText] = "open" THEN tapAfterVoiceOpen
       ELSE "no"
  /\ UNCHANGED << platform, mounted, view, stateVars, initPc, subscribed,
                  calls, nCalls, stops, engine, voiceStartCount, destroy,
                  destroyCount, initLog, flipCount >>

\* ---------------------------------------------------------------- camera
\* toggleCameraType: queues the facing opposite to the closure's cameraType.
toggleCameraType ==
  queue' = SetState(queue, "cameraType",
                    IF cameraType = "back" THEN "front" ELSE "back")

\* A tap on the camera-reverse button.
TapCameraFlip ==
  /\ mounted /\ view = "full"
  /\ flipCount < MaxFlips
  /\ toggleCameraType
  /\ flipCount' = flipCount + 1
  /\ UNCHANGED << platform, mounted, view, stateVars, animation,
                  effectPending, initPc, subscribed, calls, nCalls, stops,
                  engine, voiceStartCount, destroy, destroyCount, initLog,
                  lastReq, tapAfterVoiceOpen, actedOn >>

\* ---------------------------------------------------------------- render
\* What the component returns for a camera permission value.
renderGate_noNullCheck(h) ==
  IF h = "false" THEN "noaccess" ELSE "full"
renderGate(h) ==
  IF h = "null" THEN "empty"
  ELSE IF h = "false" THEN "noaccess"
  ELSE "full"

\* React commits the queued updates, re-renders, and schedules the
\* voice-command effect when one of its dependencies changed.  Passive
\* effects of the previous commit are flushed before a new render.
Render ==
  /\ mounted /\ ~effectPending /\ initPc # "idle"
  /\ queue # NoUpdates
  /\ isOpen' = Apply(isOpen, queue.isOpen)
  /\ isListening' = Apply(isListening, queue.isListening)
  /\ spokenText' = Apply(spokenText, queue.spokenText)
  /\ isVoiceAvailable' = Apply(isVoiceAvailable, queue.isVoiceAvailable)
  /\ hasCameraPermission' =
       Apply(hasCameraPermission, queue.hasCameraPermission)
  /\ cameraType' = Apply(cameraType, queue.cameraType)
  /\ queue' = NoUpdates
  /\ view' = renderGate(hasCameraPermission')
  /\ effectPending' = (spokenText' # spokenText \/ isOpen' # isOpen)
  /\ actedOn' = (actedOn /\ queue.spokenText = << >>)
  /\ UNCHANGED << platform, mounted, animation, initPc, subscribed, calls,
                  nCalls, stops, engine, voiceStartCount, destroy,
                  destroyCount, initLog, lastReq, tapAfterVoiceOpen,
                  flipCount >>

\* ----------------------------------------------------------- permissions
\* What the platform may answer to PermissionsAndroid.request; on other
\* platforms requestMicrophonePermission asks nothing.
MicOutcomes ==
  IF platform = "android"
  THEN { "granted", "denied", "throws" }
  ELSE { "implicit" }

\* requestMicrophonePermission: true only for RESULTS.GRANTED on Android
\* (a throw is caught and gives false), true elsewhere.
requestMicrophonePermission(r) ==
  IF platform = "android" THEN r = "granted" ELSE TRUE

\* Camera.requestCameraPermissionsAsync: a status, or a rejection.
CameraOutcomes == { "granted", "denied", "undetermined", "throws" }

\* Voice.isAvailable: a boolean, or a rejection.
AvailOutcomes == { "true", "false", "throws" }

\* ------------------------------------------------------------ mount effect
\* The effect with no dependencies: init() runs up to its first await (the
\* microphone request), then the handler is assigned to Voice.onSpeechResults.
MountEffect ==
  /\ mounted /\ initPc = "idle"
  /\ initPc' = "awaitMic"
  /\ subscribed' = TRUE
  /\ initLog' = << "micRequest", "subscribe" >>
  /\ UNCHANGED << platform, mounted, view, stateVars, queue, animation,
                  effectPending, calls, nCalls, stops, engine,
                  voiceStartCount, destroy, destroyCount, lastReq,
                  tapAfterVoiceOpen, flipCount, actedOn >>

\* init() after the microphone answer: the availability check is made only
\* with the permission, the camera request otherwise.
initAfterMic_alwaysCheck(hasPermission) == "awaitAvail"
initAfterMic(hasPermission) ==
  IF hasPermission THEN "awaitAvail" ELSE "awaitCam"

InitMicResolved(r) ==
  /\ initPc = "awaitMic"
  /\ initPc' = initAfterMic(requestMicrophonePermission(r))
  /\ initLog' = initLog \o
       << IF requestMicrophonePermission(r) THEN "micGranted"
                                            ELSE "micDenied",
          IF initPc' = "awaitAvail" THEN "availRequest" ELSE "camRequest" >>
  /\ UNCHANGED << platform, mounted, view, stateVars, queue, animation,
                  effectPending, subscribed, calls, nCalls, stops, engine,
                  voiceStartCount, destroy, destroyCount, lastReq,
                  tapAfterVoiceOpen, flipCount, actedOn >>

\* checkVoiceAvailability settles (a rejection is caught and stores false),
\* then init() requests the camera permission.
InitAvailResolved(r) ==
  /\ initPc = "awaitAvail"
  /\ queue' = SetState(queue, "isVoiceAvailable", r = "true")
  /\ initPc' = "awaitCam"
  /\ initLog' = initLog \o
       << "availResolved",
          IF r = "true" THEN "available" ELSE "unavailable",
          "camRequest" >>
  /\ UNCHANGED << platform, mounted, view, stateVars, animation,
                  effectPending, subscribed, calls, nCalls, stops, engine,
                  voiceStartCount, destroy, destroyCount, lastReq,
                  tapAfterVoiceOpen, flipCount, actedOn >>

\* The camera request settles: a status is stored as a boolean; a rejection
\* is not caught, init()'s promise rejects and nothing is stored.
InitCameraResolved(r) ==
  /\ initPc = "awaitCam"
  /\ IF r = "throws"
     THEN /\ initPc' = "failed"
          /\ initLog' = Append(initLog, "camRejected")
          /\ UNCHANGED queue
     ELSE /\ initPc' = "done"
          /\ initLog' = Append(initLog, "camResolved")
          /\ queue' = SetState(queue, "hasCameraPermission",
                               IF r = "granted" THEN "true" ELSE "false")
  /\ UNCHANGED << platform, mounted, view, stateVars, animation,
                  effectPending, subscribed, calls, nCalls, stops, engine,
                  voiceStartCount, destroy, destroyCount, lastReq,
                  tapAfterVoiceOpen, flipCount, actedOn >>

\* -------------------------------------------------------------- listening
\* A tap on the voice button while the render shows isListening false:
\* startListening runs up to its await of the microphone request.
TapStartListeningUpTo(n) ==
  /\ mounted /\ view = "full" /\ ~isListening
  /\ nCalls < n
  /\ nCalls' = nCalls + 1
  /\ calls' = [ calls EXCEPT ![nCalls + 1] =
                  [ NoCall EXCEPT !.pc = "awaitPerm",
                                  !.isVoiceAvailable = isVoiceAvailable ] ]
  /\ UNCHANGED << platform, mounted, view, stateVars, queue, animation,
                  effectPending, initPc, subscribed, stops, engine,
                  voiceStartCount, destroy, destroyCount, histVars >>

TapStartListening == TapStartListeningUpTo(MaxCalls)

\* One more tap than Spec allows, so that two startListening calls can be
\* in flight together.
TapStartListeningAgain == TapStartListeningUpTo(MaxCalls + 1)

\* Whether startListening goes on to Voice.start.
startListeningProceeds_noPermissionCheck(hasPermission, available) ==
  available
startListeningProceeds_noAvailabilityCheck(hasPermission, available) ==
  hasPermission
startListeningProceeds(hasPermission, available) ==
  hasPermission /\ available

\* startListening after the microphone answer: alert and return without the
\* permission or without availability, else setIsListening(true) and
\* Voice.start('en-US').
StartListeningResumes(k, r) ==
  /\ calls[k].pc = "awaitPerm"
  /\ IF startListeningProceeds(requestMicrophonePermission(r),
                               calls[k].isVoiceAvailable)
     THEN /\ queue' = SetState(queue, "isListening", TRUE)
          /\ voiceStartCount' = voiceStartCount + 1
          /\ calls' = [ calls EXCEPT ![k].pc = "awaitStart",
                                     ![k].perm = r,
                                     ![k].started = TRUE ]
     ELSE /\ calls' = [ calls EXCEPT
                          ![k].pc = "done",
                          ![k].perm = r,
                          ![k].alerts = @ + 1,
                          ![k].alert =
                            IF requestMicrophonePermission(r)
                            THEN "Voice Recognition Unavailable"
                            ELSE "Permission Denied" ]
          /\ UNCHANGED << queue, voiceStartCount >>
  /\ UNCHANGED << platform, mounted, view, stateVars, animation,
                  effectPending, initPc, subscribed, nCalls, stops, engine,
                  destroy, destroyCount, histVars >>

\* What the catch block of startListening queues: setIsListening(false).
startListeningCatch_noRevert(q) == q
startListeningCatch(q) == SetState(q, "isListening", FALSE)

\* Voice.start settles: the engine listens, or the catch block alerts once
\* and queues isListening false; startListening returns normally.
VoiceStartSettled(k, ok) ==
  /\ calls[k].pc = "awaitStart"
  /\ IF ok
     THEN /\ engine' = "listening"
          /\ calls' = [ calls EXCEPT ![k].pc = "done",
                                     ![k].startResult = "ok" ]
          /\ UNCHANGED queue
     ELSE /\ calls' = [ calls EXCEPT ![k].pc = "done",
                                     ![k].startResult = "threw",
                                     ![k].alert = "Error",
                                     ![k].alerts = @ + 1 ]
          /\ queue' = startListeningCatch(queue)
          /\ UNCHANGED engine
  /\ UNCHANGED << platform, mounted, view, stateVars, animation,
                  effectPending, initPc, subscribed, nCalls, stops,
                  voiceStartCount, destroy, destroyCount, histVars >>

\* A tap on the voice button while the render shows isListening true:
\* stopListening calls Voice.stop and awaits it.
TapStopListening ==
  /\ mounted /\ view = "full" /\ isListening
  /\ stops < MaxStops
  /\ stops' = stops + 1
  /\ UNCHANGED << platform, mounted, view, stateVars, queue, animation,
                  effectPending, initPc, subscribed, calls, nCalls, engine,
                  voiceStartCount, destroy, destroyCount, histVars >>

\* Voice.stop settles: isListening false is queued, or the catch block
\* alerts and leaves the state alone.
VoiceStopSettled(ok) ==
  /\ stops > 0
  /\ stops' = stops - 1
  /\ IF ok
     THEN /\ queue' = SetState(queue, "isListening", FALSE)
          /\ engine' = "idle"
     ELSE UNCHANGED << queue, engine >>
  /\ UNCHANGED << platform, mounted, view, stateVars, animation,
                  effectPending, initPc, subscribed, calls, nCalls,
                  voiceStartCount, destroy, destroyCount, histVars >>

\* The engine delivers a result to the subscribed handler: onSpeechResults
\* queues the transcript and isListening false.  The engine may go on
\* listening (further results) or end the session.
onSpeechResults(t, more) ==
  /\ engine = "listening" /\ subscribed
  /\ queue' = SetState(SetState(queue, "spokenText", t),
                       "isListening", FALSE)
  /\ engine' = IF more THEN "listening" ELSE "idle"
  /\ tapAfterVoiceOpen' = "no"
  /\ UNCHANGED << platform, mounted, view, stateVars, animation,
                  effectPending, initPc, calls, nCalls, stops, subscribed,
                  voiceStartCount, destroy, destroyCount, initLog, lastReq,
                  flipCount, actedOn >>

\* ---------------------------------------------------------------- unmount
\* The cleanup of the mount effect: Voice.destroy() is called and
\* removeAllListeners is chained on its success.  Pending passive effects
\* are flushed before the unmount is committed.  The history of the
\* drawer's voice requests ends with the mount.
Unmount ==
  /\ mounted /\ ~effectPending /\ initPc # "idle"
  /\ mounted' = FALSE
  /\ view' = "unmounted"
  /\ destroy' = "pending"
  /\ destroyCount' = destroyCount + 1
  /\ lastReq' = "none"
  /\ tapAfterVoiceOpen' = "no"
  /\ actedOn' = FALSE
  /\ UNCHANGED << platform, stateVars, queue, animation, effectPending,
                  initPc, subscribed, calls, nCalls, stops, engine,
                  voiceStartCount, initLog, flipCount >>

\* Voice.destroy() settles: on success removeAllListeners clears the
\* handler; on rejection the then-callback does not run.
DestroySettled(ok) ==
  /\ destroy = "pending"
  /\ IF ok
     THEN /\ destroy' = "resolved"
          /\ subscribed' = FALSE
          /\ engine' = "idle"
     ELSE /\ destroy' = "rejected"
          /\ UNCHANGED << subscribed, engine >>
  /\ UNCHANGED << platform, mounted, view, stateVars, queue, animation,
                  effectPending, initPc, calls, nCalls, stops,
                  voiceStartCount, destroyCount, histVars >>

\* ------------------------------------------------------------------- next
Next ==
  \/ MountEffect
  \/ \E r \in MicOutcomes : InitMicResolved(r)
  \/ \E r \in AvailOutcomes : InitAvailResolved(r)
  \/ \E r \in CameraOutcomes : InitCameraResolved(r)
  \/ Render
  \/ VoiceCommandEffect
  \/ TapMenu
  \/ TapCameraFlip
  \/ TapStartListening
  \/ \E k \in CallSlots : \E r \in MicOutcomes : StartListeningResumes(k, r)
  \/ \E k \in CallSlots : \E ok \in BOOLEAN : VoiceStartSettled(k, ok)
  \/ TapStopListening
  \/ \E ok \in BOOLEAN : VoiceStopSettled(ok)
  \/ \E t \in Transcripts : \E more \in BOOLEAN : onSpeechResults(t, more)
  \/ Unmount
  \/ \E ok \in BOOLEAN : DestroySettled(ok)

Spec == Init /\ [][Next]_vars

\* The same program with one more startListening call.
NextOverlap == Next \/ TapStartListeningAgain

SpecOverlap == Init /\ [][NextOverlap]_vars

\* ================================================================ claims
\* Positions in the mount log.
Logged(e) == \E i \in 1..Len(initLog) : initLog[i] = e
Before(a, b) ==
  \E j \in 1..Len(initLog) :
    initLog[j] = b /\ \E i \in 1..(j - 1) : initLog[i] = a

\* A step of the voice-command effect: only it clears effectPending.
EffectStep == effectPending /\ ~effectPending'

\* ---- C1
\* C1 (as stated): once the drawer was opened by an "open menu" transcript
\* and everything had settled, a single tap on the drawer toggle leaves the
\* drawer Closed when the re-renders and effects that follow have settled.
C1_TapClosesVoiceOpenedDrawer ==
  (mounted /\ tapAfterVoiceOpen = "tapped" /\ Quiescent) => isOpen = FALSE

\* ---- C2
\* C2: the voice-command effect acts on the stated intent of spokenText:
\* OpenDrawer (a closed drawer is sent to offset 0 and isOpen true is
\* queued, an open one is left alone) if the text mentions "open menu" in
\* any letter case, otherwise CloseDrawer if it mentions "close menu",
\* otherwise nothing changes.
C2_EffectActsOnIntent ==
  [][ EffectStep =>
        LET intent == InterpretOf[spokenText] IN
        /\ intent = "open" =>
             IF isOpen THEN UNCHANGED << queue, animation >>
             ELSE queue'.isOpen = << TRUE >> /\ animation' = 0
        /\ intent = "close" =>
             IF isOpen
             THEN queue'.isOpen = << FALSE >> /\ animation' = -SCREEN_WIDTH
             ELSE UNCHANGED << queue, animation >>
        /\ intent = "none" => UNCHANGED << queue, animation >> ]_vars

\* The effect has run on a text holding both phrases and the drawer is open.
C2_Witness ==
  /\ spokenText = T_both /\ Quiescent /\ mounted
  /\ lastReq = "open" /\ isOpen

\* ---- C3
\* C3: whenever the voice-command effect has issued open/close requests,
\* the last one with no tap pending or following, the drawer state after
\* all pending re-renders and effects equals the target of that request.
C3_LastVoiceRequestWins ==
  (mounted /\ Quiescent /\ lastReq # "none") => (isOpen = (lastReq = "open"))

\* A close request was the last one, served after an open one.
C3_Witness ==
  /\ mounted /\ Quiescent /\ lastReq = "close" /\ ~isOpen
  /\ animation = -SCREEN_WIDTH /\ spokenText = T_close

\* ---- C4
Denied(r) == r \in { "denied", "throws" }

\* C4: a startListening call whose microphone request was denied or threw
\* never reaches Voice.start and raises the Permission Denied alert; as long
\* as no startListening request was granted, Voice.start has been invoked
\* zero times and isListening is false and is not queued to become true.
C4_NoStartWithoutPermission ==
  /\ \A k \in CallSlots :
       Denied(calls[k].perm) =>
         ~calls[k].started /\ calls[k].alert = "Permission Denied"
  /\ (\A k \in CallSlots : calls[k].perm \in { "none", "denied", "throws" })
       => /\ voiceStartCount = 0
          /\ ~isListening
          /\ queue.isListening # << TRUE >>

\* A call made while speech was available has been denied.
C4_Witness ==
  \E k \in CallSlots :
    /\ calls[k].pc = "done" /\ Denied(calls[k].perm)
    /\ calls[k].isVoiceAvailable
    /\ voiceStartCount = 0

\* ---- C5
\* C5: the Camera element is rendered only while hasCameraPermission is
\* true; while it is null the empty view is shown and while it is false the
\* "No access to camera" text is shown.
C5_CameraOnlyWhenGranted ==
  /\ view = "full" => hasCameraPermission = "true"
  /\ (mounted /\ hasCameraPermission = "null") => view = "empty"
  /\ (mounted /\ hasCameraPermission = "false") => view = "noaccess"

\* The camera permission was denied and the degraded view is shown.
C5_Witness == mounted /\ view = "noaccess" /\ initPc = "done"

\* ---- C6
\* C6 (as stated): after exactly two toggleCameraType calls, once rendered,
\* the facing is the original one (back), whatever the timing of the calls.
C6_TwoTogglesRestoreFacing ==
  (flipCount = 2 /\ queue.cameraType = << >>) => cameraType = "back"

\* ---- C7
\* C7 (as stated): the result handler is subscribed only after the camera
\* permission request has resolved.
C7_SubscribeAfterCamera ==
  Logged("subscribe") => Before("camResolved", "subscribe")

\* C7 (amended): the microphone request comes first; the availability check
\* is made only after the microphone request resolved granted; the camera
\* request is made only after the microphone request resolved and, when the
\* availability check was made, after it resolved; the result handler is
\* subscribed right after the microphone request is issued, before any
\* result.
C7_MountOrder ==
  /\ initLog # << >> => initLog[1] = "micRequest"
  /\ Logged("availRequest") => Before("micGranted", "availRequest")
  /\ Logged("camRequest") =>
       /\ Before("micGranted", "camRequest")
            \/ Before("micDenied", "camRequest")
       /\ Logged("availRequest") => Before("availResolved", "camRequest")
       /\ Logged("micGranted") => Before("availResolved", "camRequest")
  /\ Logged("micDenied") => ~Logged("availRequest")
  /\ Len(initLog) >= 2 => initLog[2] = "subscribe"
  /\ initPc = "idle" => ~subscribed
  /\ (initPc # "idle" /\ destroy # "resolved") => subscribed

\* The whole sequence ran with the microphone granted.
C7_Witness ==
  /\ initPc = "done" /\ Logged("availResolved") /\ Logged("camResolved")

\* ---- C8
\* C8 (as stated): after unmount no callback writes controller state: the
\* committed values and the update queue stay as they were.
C8_NoWritesAfterUnmount ==
  [][ ~mounted => UNCHANGED << stateVars, queue >> ]_vars

\* ---- C9
\* C9 (as stated): Voice.destroy is invoked exactly once per mount, at
\* unmount, and once it has settled the result handler is unsubscribed.
C9_DisposeOnceAndUnsubscribe ==
  /\ destroyCount = (IF mounted THEN 0 ELSE 1)
  /\ destroy \in { "resolved", "rejected" } => ~subscribed

\* ---- C10
\* C10 (as stated): a permission request that throws resolves to Denied and
\* nothing propagates: a startListening call whose request threw does not
\* start, init() never fails, and after a rejected camera request
\* hasCameraPermission becomes false.
C10_PermissionErrorsBecomeDenied ==
  /\ \A k \in CallSlots : calls[k].perm = "throws" => ~calls[k].started
  /\ initPc # "failed"
  /\ Logged("camRejected") =>
       Apply(hasCameraPermission, queue.hasCameraPermission) = "false"

\* ---- C11
\* A stopListening call completes: its Voice.stop has settled.
StopCompletes == stops' < stops

\* C11 (as stated): when a stopListening call completes, whether Voice.stop
\* succeeded or threw, the listening state is Idle: isListening is false
\* or queued to become false.
C11_StopLeavesIdle ==
  [][ StopCompletes => Apply(isListening, queue'.isListening) = FALSE ]_vars

\* ---- C12
\* C12: when Voice.start throws in a startListening call, the call queues
\* isListening false, raises exactly one alert (the Error one) and returns
\* normally.
C12_StartFailureReverts ==
  [][ \A k \in CallSlots :
        (calls[k].pc = "awaitStart" /\ calls'[k].startResult = "threw") =>
          /\ queue'.isListening = << FALSE >>
          /\ calls'[k].alerts = 1 /\ calls'[k].alert = "Error"
          /\ calls'[k].pc = "done" ]_vars

\* A Voice.start has thrown and the revert has been rendered.
C12_Witness ==
  /\ \E k \in CallSlots : calls[k].startResult = "threw"
  /\ mounted /\ Quiescent /\ ~isListening

\* ---- C13
\* C13: Voice.start has been invoked only if the mount-time microphone
\* request was granted and the availability check that followed returned
\* true and was rendered; after a denied mount-time request it is never
\* invoked, whatever later requests answer.
C13_StartOnlyWhenAvailable ==
  /\ voiceStartCount > 0 =>
       /\ Before("micGranted", "available")
       /\ isVoiceAvailable
  /\ Logged("micDenied") => voiceStartCount = 0
  /\ \A k \in CallSlots : calls[k].started => calls[k].isVoiceAvailable

\* The mount-time request was denied, a later one granted, and the call
\* stopped at the availability check.
C13_Witness ==
  /\ Logged("micDenied")
  /\ \E k \in CallSlots :
       /\ calls[k].perm = "granted" /\ calls[k].pc = "done"
       /\ calls[k].alert = "Voice Recognition Unavailable"

\* ---- C14
\* The offset that goes with a drawer state.
OffsetOf(open) == IF open THEN 0 ELSE -SCREEN_WIDTH

\* C14: the target of the last drawer animation started is the offset of
\* the isOpen value that the last toggleMenu call produced: 0 when it is
\* true, -SCREEN_WIDTH when it is false.  In every state with no isOpen
\* update waiting for a render this is the committed isOpen.
C14_AnimationAgreesWithIsOpen ==
  /\ animation = OffsetOf(Apply(isOpen, queue.isOpen))
  /\ queue.isOpen = << >> => animation = OffsetOf(isOpen)

\* The drawer has been opened and the open state is committed.
C14_Witness ==
  mounted /\ Quiescent /\ isOpen /\ animation = 0

\* ---- C15
\* C15: a run of the voice-command effect on an open command while isOpen
\* is true, or on a close command while isOpen is false, queues no isOpen
\* update and starts no animation.
C15_MatchingCommandIsNoOp ==
  [][ (EffectStep /\ InterpretOf[spokenText] # "none"
         /\ isOpen = (InterpretOf[spokenText] = "open"))
        => UNCHANGED << isOpen, queue, animation >> ]_vars

\* An open command arrived while the drawer was already open: the effect
\* has run on it and has not called toggleMenu.
C15_Witness ==
  /\ mounted /\ Quiescent /\ isOpen
  /\ InterpretOf[spokenText] = "open" /\ ~actedOn

\* ---- C16
\* The effect calls toggleMenu in this step.
EffectActs ==
  EffectStep /\ effectToggles(commandBranchOf[spokenText], isOpen)

\* C16 (as stated): once the effect has taken the drawer action for the
\* transcript in spokenText, no later run of the effect on that same
\* transcript takes another one.
C16_TranscriptActedOnOnce ==
  [][ actedOn => ~EffectActs ]_vars

\* ---- C18
\* A startListening call invokes Voice.start in this step.
VoiceStartInvoked == voiceStartCount' > voiceStartCount

\* The session is Listening: isListening is true or queued to become true,
\* which a completed stop, a delivered result and a failed start all undo.
SessionListening == Apply(isListening, queue.isListening)

\* C18 (as stated): Voice.start is never invoked while the session is
\* Listening, nor by a call while an earlier startListening call is still
\* awaiting its permission request or its Voice.start.
C18_NoOverlappingStart ==
  [][ VoiceStartInvoked =>
        /\ ~SessionListening
        /\ \A k \in CallSlots :
             (calls[k].pc = "awaitPerm" /\ calls'[k].pc = "awaitStart") =>
               \A j \in CallSlots :
                 j < k => calls[j].pc \notin { "awaitPerm", "awaitStart" }
      ]_vars

\* ---- C19
\* C19: in every quiescent state an open command in spokenText goes with
\* isOpen true and otherwise a close command with isOpen false; and one
\* run of the effect, with at most its one toggleMenu call, brings the
\* isOpen of the next render to that value when no tap is pending.
C19_QuiescentDrawerFollowsTranscript ==
  /\ [](Quiescent =>
          /\ InterpretOf[spokenText] = "open" => isOpen
          /\ InterpretOf[spokenText] = "close" => ~isOpen)
  /\ [][ (EffectStep /\ queue.isOpen = << >>
            /\ InterpretOf[spokenText] # "none")
           => Apply(isOpen, queue'.isOpen)
                = (InterpretOf[spokenText] = "open") ]_vars

\* A close command has closed an open drawer and the state has settled.
C19_Witness ==
  /\ mounted /\ Quiescent /\ ~isOpen
  /\ InterpretOf[spokenText] = "close" /\ actedOn

====
